---- MODULE Spec2Model ----
(***************************************************************************)
(* The SemanticOS setup wizard (semantic-cli/src/tui/mod.rs) and the       *)
(* configuration it builds (semantic-cli/src/config/mod.rs).               *)
(*                                                                         *)
(* The wizard is the loop of run_inner: draw, read one terminal event,     *)
(* dispatch it to one method of App, repeat until should_quit is set or    *)
(* the step is Done.  Drawing only reads the App (the list widgets are     *)
(* rendered from non-empty option lists with an in-range selection, so     *)
(* the ListState selection is left as it is), hence it is not a variable.  *)
(*                                                                         *)
(* Variables lastOp, lastEvent, saveAttempts, saveSuccesses and visited    *)
(* are history variables: they record what the code did and are read by    *)
(* no action.                                                              *)
(*                                                                         *)
(* main (semantic-cli/src/main.rs) is the process around it: args is the   *)
(* command line, mpc the position of main, loaded the result of            *)
(* SemanticConfig::load once it was called, command the Command built by    *)
(* cmd_translate, status what its status() returned, exit_code the exit    *)
(* code of the process, stderr / stdout what was printed.  Spec is the     *)
(* wizard alone (main called without arguments), Main the whole program.   *)
(* sel and built are the arguments and the result of one call of           *)
(* SemanticConfig::from_selections (specification Build).  Live is the     *)
(* wizard with the fairness of its loop, Committed is translate run on a   *)
(* config the wizard saved.                                                *)
(***************************************************************************)
EXTENDS Naturals, Integers, Sequences, FiniteSets, TLC

VARIABLES step, shell_state, command_style_state, folder_style_state,
          new_shell_state, should_quit, write_error, pc, printed,
          lastOp, lastEvent, saveAttempts, saveSuccesses, visited,
          args, mpc, loaded, command, status, exit_code, stderr, stdout,
          sel, built

cursors == <<shell_state, command_style_state, folder_style_state, new_shell_state>>
app == <<step, shell_state, command_style_state, folder_style_state,
         new_shell_state, should_quit, write_error>>
vars == <<step, shell_state, command_style_state, folder_style_state,
          new_shell_state, should_quit, write_error, pc, printed,
          lastOp, lastEvent, saveAttempts, saveSuccesses, visited,
          args, mpc, loaded, command, status, exit_code, stderr, stdout,
          sel, built>>

(* what the wizard never touches: the command line, the config loaded and *)
(* the child process of translate, the init text; the inputs and the      *)
(* result of a stand-alone from_selections call                           *)
clirun == <<args, loaded, command, status, stdout>>
build == <<sel, built>>

(* Largest number of config.save() calls followed in one session. *)
MaxAttempts == 2

(* Option<T> *)
None == [some |-> FALSE]
Some(x) == [some |-> TRUE, val |-> x]

Range(s) == {s[i] : i \in 1..Len(s)}

---------------------------------------------------------------------------
(* enum Step, in declaration order *)
Steps == <<"Welcome", "Shell", "CommandStyle", "FolderStyle",
           "NewShellBehavior", "Summary", "Done">>

(* Step::next with the Shell arm lost: Welcome leads to CommandStyle *)
next_SkipsShell(s) ==
  CASE s = "Welcome" -> "CommandStyle"
    [] s = "Shell" -> "CommandStyle"
    [] s = "CommandStyle" -> "FolderStyle"
    [] s = "FolderStyle" -> "NewShellBehavior"
    [] s = "NewShellBehavior" -> "Summary"
    [] s = "Summary" -> "Done"
    [] s = "Done" -> "Done"

(* Step::next *)
next(s) ==
  CASE s = "Welcome" -> "Shell"
    [] s = "Shell" -> "CommandStyle"
    [] s = "CommandStyle" -> "FolderStyle"
    [] s = "FolderStyle" -> "NewShellBehavior"
    [] s = "NewShellBehavior" -> "Summary"
    [] s = "Summary" -> "Done"
    [] s = "Done" -> "Done"

(* Step::prev with Summary leading back to FolderStyle *)
prev_SkipsBack(s) ==
  CASE s = "Welcome" -> "Welcome"
    [] s = "Shell" -> "Welcome"
    [] s = "CommandStyle" -> "Shell"
    [] s = "FolderStyle" -> "CommandStyle"
    [] s = "NewShellBehavior" -> "FolderStyle"
    [] s = "Summary" -> "FolderStyle"
    [] s = "Done" -> "Done"

(* Step::prev *)
prev(s) ==
  CASE s = "Welcome" -> "Welcome"
    [] s = "Shell" -> "Welcome"
    [] s = "CommandStyle" -> "Shell"
    [] s = "FolderStyle" -> "CommandStyle"
    [] s = "NewShellBehavior" -> "FolderStyle"
    [] s = "Summary" -> "NewShellBehavior"
    [] s = "Done" -> "Done"

(* Step::index *)
index(s) ==
  CASE s = "Welcome" -> 0
    [] s = "Shell" -> 1
    [] s = "CommandStyle" -> 2
    [] s = "FolderStyle" -> 3
    [] s = "NewShellBehavior" -> 4
    [] s = "Summary" -> 5
    [] s = "Done" -> 6

---------------------------------------------------------------------------
(* config/mod.rs: the preset tables *)

(* natural_commands with a blank value for back *)
natural_commands_BlankBack ==
  ("goto" :> "cd") @@ ("back" :> " \t") @@ ("list" :> "ls -la") @@
  ("delete" :> "rm -rf") @@ ("copy" :> "cp -r") @@ ("move" :> "mv") @@
  ("install" :> "sudo pacman -S") @@ ("remove" :> "sudo pacman -R") @@
  ("update" :> "sudo pacman -Syu")

(* fn natural_commands *)
natural_commands ==
  ("goto" :> "cd") @@ ("back" :> "cd ..") @@ ("list" :> "ls -la") @@
  ("delete" :> "rm -rf") @@ ("copy" :> "cp -r") @@ ("move" :> "mv") @@
  ("install" :> "sudo pacman -S") @@ ("remove" :> "sudo pacman -R") @@
  ("update" :> "sudo pacman -Syu")

verbose_commands ==
  ("go-to" :> "cd") @@ ("go-back" :> "cd ..") @@ ("list-files" :> "ls -la") @@
  ("delete-file" :> "rm -rf") @@ ("copy-file" :> "cp -r") @@
  ("move-file" :> "mv") @@ ("install-package" :> "sudo pacman -S") @@
  ("remove-package" :> "sudo pacman -R") @@
  ("update-system" :> "sudo pacman -Syu")

traditional_commands ==
  ("cd" :> "cd") @@ ("ls" :> "ls") @@ ("rm" :> "rm") @@ ("cp" :> "cp") @@
  ("mv" :> "mv") @@ ("pacman" :> "pacman")

natural_paths ==
  ("/apps" :> "/usr/bin") @@ ("/settings" :> "/etc") @@ ("/logs" :> "/var/log")

verbose_paths ==
  ("/user/applications" :> "/usr/bin") @@ ("/configuration" :> "/etc") @@
  ("/system-logs" :> "/var/log")

traditional_paths == [k \in {} |-> ""]

(* from_selections falling back to the natural tables *)
from_selections_FallbackNatural(shell, command_style, folder_style, on_new_shell) ==
  LET commands == CASE command_style = "traditional" -> traditional_commands
                    [] command_style = "verbose" -> verbose_commands
                    [] OTHER -> natural_commands
      paths == CASE folder_style = "traditional" -> traditional_paths
                 [] folder_style = "verbose" -> verbose_paths
                 [] OTHER -> natural_paths
  IN [general |-> [command_style |-> command_style,
                   folder_style |-> folder_style],
      shells |-> [default |-> shell,
                  enabled |-> <<shell>>,
                  on_new_shell |-> on_new_shell],
      commands |-> commands,
      paths |-> paths]

(* from_selections leaving the list of enabled shells empty *)
from_selections_NoneEnabled(shell, command_style, folder_style, on_new_shell) ==
  LET commands == CASE command_style = "natural" -> natural_commands
                    [] command_style = "verbose" -> verbose_commands
                    [] OTHER -> traditional_commands
      paths == CASE folder_style = "natural" -> natural_paths
                 [] folder_style = "verbose" -> verbose_paths
                 [] OTHER -> traditional_paths
  IN [general |-> [command_style |-> command_style,
                   folder_style |-> folder_style],
      shells |-> [default |-> shell,
                  enabled |-> <<>>,
                  on_new_shell |-> on_new_shell],
      commands |-> commands,
      paths |-> paths]

(* SemanticConfig::from_selections *)
from_selections(shell, command_style, folder_style, on_new_shell) ==
  LET commands == CASE command_style = "natural" -> natural_commands
                    [] command_style = "verbose" -> verbose_commands
                    [] OTHER -> traditional_commands
      paths == CASE folder_style = "natural" -> natural_paths
                 [] folder_style = "verbose" -> verbose_paths
                 [] OTHER -> traditional_paths
  IN [general |-> [command_style |-> command_style,
                   folder_style |-> folder_style],
      shells |-> [default |-> shell,
                  enabled |-> <<shell>>,
                  on_new_shell |-> on_new_shell],
      commands |-> commands,
      paths |-> paths]

(* SemanticConfig::save: the outcomes of create_dir_all, to_string_pretty *)
(* and fs::write, which the wizard does not control.                      *)
SaveErrors == {"create_dir_all", "write"}
SaveResults == {[ok |-> TRUE, err |-> ""]} \cup
               {[ok |-> FALSE, err |-> e] : e \in SaveErrors}

---------------------------------------------------------------------------
(* App::new: the option lists *)
shells == <<"fish", "bash", "zsh">>
command_styles == <<"natural", "traditional", "verbose">>
folder_styles == <<"natural", "traditional", "verbose">>
new_shell_options ==
  << <<"auto-setup", "Automatically configure new shells">>,
     <<"notify", "Notify when a new shell is detected">>,
     <<"ignore", "Do nothing">> >>

(* Vec indexing is 0-based, Sequences are 1-based *)
at(vec, i) == vec[i + 1]

(* App::selected_shell *)
selected_shell == at(shells, shell_state)

(* App::selected_command_style *)
selected_command_style == at(command_styles, command_style_state)

(* App::selected_folder_style reading the cursor of the command styles *)
selected_folder_style_FromCommandCursor ==
  at(folder_styles, command_style_state)

(* App::selected_folder_style *)
selected_folder_style == at(folder_styles, folder_style_state)

(* App::selected_new_shell *)
selected_new_shell == at(new_shell_options, new_shell_state)[1]

(* App::current_list_state whose catch-all arm returns the last list *)
current_list_state_Fallthrough ==
  CASE step = "Shell" ->
         Some([list |-> "shell_state", len |-> Len(shells)])
    [] step = "CommandStyle" ->
         Some([list |-> "command_style_state", len |-> Len(command_styles)])
    [] step = "FolderStyle" ->
         Some([list |-> "folder_style_state", len |-> Len(folder_styles)])
    [] OTHER ->
         Some([list |-> "new_shell_state", len |-> Len(new_shell_options)])

(* App::current_list_state: the list of the current step and its length *)
current_list_state ==
  CASE step = "Shell" ->
         Some([list |-> "shell_state", len |-> Len(shells)])
    [] step = "CommandStyle" ->
         Some([list |-> "command_style_state", len |-> Len(command_styles)])
    [] step = "FolderStyle" ->
         Some([list |-> "folder_style_state", len |-> Len(folder_styles)])
    [] step = "NewShellBehavior" ->
         Some([list |-> "new_shell_state", len |-> Len(new_shell_options)])
    [] OTHER -> None

(* ListState::selected().unwrap_or(0) of the named list *)
selected(list) ==
  CASE list = "shell_state" -> shell_state
    [] list = "command_style_state" -> command_style_state
    [] list = "folder_style_state" -> folder_style_state
    [] list = "new_shell_state" -> new_shell_state

(* ListState::select(Some(i)) on the named list *)
select(list, i) ==
  /\ shell_state' = IF list = "shell_state" THEN i ELSE shell_state
  /\ command_style_state' =
       IF list = "command_style_state" THEN i ELSE command_style_state
  /\ folder_style_state' =
       IF list = "folder_style_state" THEN i ELSE folder_style_state
  /\ new_shell_state' = IF list = "new_shell_state" THEN i ELSE new_shell_state

(* move_up stopping at the first option instead of wrapping *)
up_index_Clamped(i, len) == IF i = 0 THEN 0 ELSE i - 1

(* the index move_up selects *)
up_index(i, len) == IF i = 0 THEN len - 1 ELSE i - 1

(* move_down without the modulo *)
down_index_NoWrap(i, len) == i + 1

(* the index move_down selects *)
down_index(i, len) == (i + 1) % len

---------------------------------------------------------------------------
(* history *)
Record(op, save, handed) ==
  lastOp' = [op |-> op, from |-> step, save |-> save, handed |-> handed]

Visit(s) ==
  visited' = IF s \in Range(visited) THEN visited ELSE Append(visited, s)

NoSave == /\ saveAttempts' = saveAttempts
          /\ saveSuccesses' = saveSuccesses

(* App::move_up *)
move_up ==
  /\ IF current_list_state.some
       THEN LET l == current_list_state.val
            IN select(l.list, up_index(selected(l.list), l.len))
       ELSE UNCHANGED cursors
  /\ UNCHANGED <<step, should_quit, write_error, visited>>
  /\ NoSave
  /\ Record("move_up", "none", None)

(* App::move_down *)
move_down ==
  /\ IF current_list_state.some
       THEN LET l == current_list_state.val
            IN select(l.list, down_index(selected(l.list), l.len))
       ELSE UNCHANGED cursors
  /\ UNCHANGED <<step, should_quit, write_error, visited>>
  /\ NoSave
  /\ Record("move_down", "none", None)

(* the match on config.save() moving to Done on Err as well *)
after_save_DoneOnError(res) ==
  IF res.ok
    THEN [step |-> "Done", write_error |-> None]
    ELSE [step |-> "Done",
          write_error |-> Some(<<"Failed to write config: ", res.err>>)]

(* the Ok arm not clearing write_error *)
after_save_KeepsError(res) ==
  IF res.ok
    THEN [step |-> "Done", write_error |-> write_error]
    ELSE [step |-> step,
          write_error |-> Some(<<"Failed to write config: ", res.err>>)]

(* the Ok arm not moving to Done *)
after_save_StaysOnSummary(res) ==
  IF res.ok
    THEN [step |-> step, write_error |-> None]
    ELSE [step |-> step,
          write_error |-> Some(<<"Failed to write config: ", res.err>>)]

(* the match on config.save() in App::advance: the step and the error *)
after_save(res) ==
  IF res.ok
    THEN [step |-> "Done", write_error |-> None]
    ELSE [step |-> step,
          write_error |-> Some(<<"Failed to write config: ", res.err>>)]

(* App::advance doing nothing on Summary once an error is shown *)
advance_StuckAfterError(res) ==
  /\ IF step = "Summary" /\ ~write_error.some
       THEN LET config == from_selections(selected_shell,
                                          selected_command_style,
                                          selected_folder_style,
                                          selected_new_shell)
            IN /\ saveAttempts < MaxAttempts
               /\ step' = after_save(res).step
               /\ write_error' = after_save(res).write_error
               /\ saveAttempts' = saveAttempts + 1
               /\ saveSuccesses' = saveSuccesses + (IF res.ok THEN 1 ELSE 0)
               /\ Record("advance", IF res.ok THEN "ok" ELSE "err", Some(config))
               /\ Visit(after_save(res).step)
       ELSE /\ step' = IF step = "Summary" THEN step ELSE next(step)
            /\ UNCHANGED write_error
            /\ NoSave
            /\ Record("advance", "none", None)
            /\ Visit(IF step = "Summary" THEN step ELSE next(step))
  /\ UNCHANGED <<cursors, should_quit>>

(* App::advance; res is the outcome of config.save() *)
advance(res) ==
  /\ IF step = "Summary"
       THEN LET config == from_selections(selected_shell,
                                          selected_command_style,
                                          selected_folder_style,
                                          selected_new_shell)
            IN /\ saveAttempts < MaxAttempts
               /\ step' = after_save(res).step
               /\ write_error' = after_save(res).write_error
               /\ saveAttempts' = saveAttempts + 1
               /\ saveSuccesses' = saveSuccesses + (IF res.ok THEN 1 ELSE 0)
               /\ Record("advance", IF res.ok THEN "ok" ELSE "err", Some(config))
               /\ Visit(after_save(res).step)
       ELSE /\ step' = next(step)
            /\ UNCHANGED write_error
            /\ NoSave
            /\ Record("advance", "none", None)
            /\ Visit(next(step))
  /\ UNCHANGED <<cursors, should_quit>>

(* App::go_back without the reset of write_error *)
go_back_KeepsError ==
  /\ UNCHANGED write_error
  /\ step' = prev(step)
  /\ UNCHANGED <<cursors, should_quit>>
  /\ NoSave
  /\ Record("go_back", "none", None)
  /\ Visit(prev(step))

(* App::go_back clearing write_error only when the step does not change *)
go_back_ClearsInPlace ==
  /\ write_error' = IF prev(step) = step THEN None ELSE write_error
  /\ step' = prev(step)
  /\ UNCHANGED <<cursors, should_quit>>
  /\ NoSave
  /\ Record("go_back", "none", None)
  /\ Visit(prev(step))

(* App::go_back *)
go_back ==
  /\ write_error' = None
  /\ step' = prev(step)
  /\ UNCHANGED <<cursors, should_quit>>
  /\ NoSave
  /\ Record("go_back", "none", None)
  /\ Visit(prev(step))

(* the 'q' / Esc arm of handle_event *)
quit ==
  /\ should_quit' = TRUE
  /\ UNCHANGED <<step, cursors, write_error, visited>>
  /\ NoSave
  /\ Record("quit", "none", None)

(* an event handle_event does not act on *)
ignore ==
  /\ UNCHANGED <<app, visited>>
  /\ NoSave
  /\ Record("none", "none", None)

---------------------------------------------------------------------------
(* crossterm events, as far as handle_event distinguishes them *)
KeyKinds == {"Press", "Release", "Repeat"}
KeyCodes == {"q", "Esc", "Enter", "Backspace", "Up", "k", "Down", "j", "Tab"}
Events == {[type |-> "Key", kind |-> kd, code |-> c] :
             kd \in KeyKinds, c \in KeyCodes}
          \cup {[type |-> "Resize", kind |-> "", code |-> ""]}

(* handle_event acting on key events of every kind *)
handle_event_AnyKind(ev, res) ==
  IF ev.type = "Key"
    THEN CASE ev.code \in {"q", "Esc"} -> quit
           [] ev.code = "Enter" -> advance(res)
           [] ev.code = "Backspace" -> go_back
           [] ev.code \in {"Up", "k"} -> move_up
           [] ev.code \in {"Down", "j"} -> move_down
           [] OTHER -> ignore
    ELSE ignore

(* handle_event, after event::read() returned ev *)
handle_event(ev, res) ==
  IF ev.type = "Key" /\ ev.kind = "Press"
    THEN CASE ev.code \in {"q", "Esc"} -> quit
           [] ev.code = "Enter" -> advance(res)
           [] ev.code = "Backspace" -> go_back
           [] ev.code \in {"Up", "k"} -> move_up
           [] ev.code \in {"Down", "j"} -> move_down
           [] OTHER -> ignore
    ELSE ignore

(* the loop condition without the should_quit test *)
loop_cond_IgnoresQuit == step # "Done"

(* the condition of the while loop of run_inner *)
loop_cond == ~should_quit /\ step # "Done"

(* one iteration of the loop of run_inner *)
LoopIter ==
  /\ mpc = "tui"
  /\ pc = "loop"
  /\ loop_cond
  /\ \E ev \in Events, res \in SaveResults :
       /\ handle_event(ev, res)
       /\ lastEvent' = ev
  /\ UNCHANGED <<pc, printed, mpc, exit_code, stderr, clirun, build>>

(* terminal.draw or event::read fails: run_inner returns the error, run *)
(* prints it and exits with code 1                                      *)
IoError ==
  /\ mpc = "tui"
  /\ pc = "loop"
  /\ loop_cond
  /\ pc' = "error"
  /\ stderr' = Append(stderr, [msg |-> "Error", arg |-> <<>>])
  /\ exit_code' = Some(1)
  /\ mpc' = "exited"
  /\ UNCHANGED <<app, printed, lastOp, lastEvent, saveAttempts, saveSuccesses,
                 visited, clirun, build>>

(* the loop has ended and disable_raw_mode or the execute of          *)
(* LeaveAlternateScreen fails: run_inner returns the error before the *)
(* confirmation, run prints it and exits with code 1                  *)
RestoreError ==
  /\ mpc = "tui"
  /\ pc = "loop"
  /\ ~loop_cond
  /\ pc' = "error"
  /\ stderr' = Append(stderr, [msg |-> "Error", arg |-> <<>>])
  /\ exit_code' = Some(1)
  /\ mpc' = "exited"
  /\ UNCHANGED <<app, printed, lastOp, lastEvent, saveAttempts, saveSuccesses,
                 visited, clirun, build>>

(* the loop has ended and the terminal is restored: the confirmation is *)
(* printed when the step is Done; run and main return                   *)
LoopExit ==
  /\ mpc = "tui"
  /\ pc = "loop"
  /\ ~loop_cond
  /\ pc' = "exited"
  /\ printed' = (step = "Done")
  /\ exit_code' = Some(0)
  /\ mpc' = "exited"
  /\ UNCHANGED <<app, lastOp, lastEvent, saveAttempts, saveSuccesses, visited,
                 stderr, clirun, build>>

(* App::new *)
NewApp ==
  /\ step = "Welcome"
  /\ shell_state = 0
  /\ command_style_state = 0
  /\ folder_style_state = 0
  /\ new_shell_state = 0
  /\ should_quit = FALSE
  /\ write_error = None
  /\ pc = "loop"
  /\ printed = FALSE
  /\ lastOp = [op |-> "none", from |-> "Welcome", save |-> "none",
               handed |-> None]
  /\ lastEvent = [type |-> "None", kind |-> "", code |-> ""]
  /\ saveAttempts = 0
  /\ saveSuccesses = 0
  /\ visited = <<"Welcome">>

(* nothing loaded, run or printed yet *)
NotRun ==
  /\ loaded = None
  /\ command = None
  /\ status = None
  /\ exit_code = None
  /\ stderr = <<>>
  /\ stdout = None

(* no stand-alone from_selections call *)
NotBuilt ==
  /\ sel = None
  /\ built = None

(* main called without arguments: tui::run, App::new, the start of *)
(* run_inner                                                       *)
Init ==
  /\ NewApp
  /\ args = <<>>
  /\ mpc = "tui"
  /\ NotRun
  /\ NotBuilt

Next == LoopIter \/ IoError \/ LoopExit \/ RestoreError

Spec == Init /\ [][Next]_vars

---------------------------------------------------------------------------
(* main.rs.  A String whose characters the code looks at is the sequence   *)
(* of its characters; chars spells the strings used below.                 *)
chars ==
  ("" :> <<>>) @@ (" \t" :> <<" ", "\t">>) @@
  ("  ls \t -la  " :> <<" ", " ", "l", "s", " ", "\t", " ", "-", "l", "a", " ", " ">>) @@
  ("-R" :> <<"-", "R">>) @@ ("-S" :> <<"-", "S">>) @@
  ("-Syu" :> <<"-", "S", "y", "u">>) @@ ("-la" :> <<"-", "l", "a">>) @@
  ("-r" :> <<"-", "r">>) @@ ("-rf" :> <<"-", "r", "f">>) @@
  (".." :> <<".", ".">>) @@ ("/a" :> <<"/", "a">>) @@
  ("/apps" :> <<"/", "a", "p", "p", "s">>) @@
  ("/apps/x" :> <<"/", "a", "p", "p", "s", "/", "x">>) @@
  ("/b" :> <<"/", "b">>) @@ ("/c" :> <<"/", "c">>) @@
  ("/configuration" :> <<"/", "c", "o", "n", "f", "i", "g", "u", "r", "a", "t", "i", "o", "n">>) @@
  ("/etc" :> <<"/", "e", "t", "c">>) @@
  ("/logs" :> <<"/", "l", "o", "g", "s">>) @@
  ("/not/mapped" :> <<"/", "n", "o", "t", "/", "m", "a", "p", "p", "e", "d">>) @@
  ("/settings" :> <<"/", "s", "e", "t", "t", "i", "n", "g", "s">>) @@
  ("/system-logs" :> <<"/", "s", "y", "s", "t", "e", "m", "-", "l", "o", "g", "s">>) @@
  ("/user/applications" :> <<"/", "u", "s", "e", "r", "/", "a", "p", "p", "l", "i", "c", "a", "t", "i", "o", "n", "s">>) @@
  ("/usr/bin" :> <<"/", "u", "s", "r", "/", "b", "i", "n">>) @@
  ("/var/log" :> <<"/", "v", "a", "r", "/", "l", "o", "g">>) @@
  ("back" :> <<"b", "a", "c", "k">>) @@
  ("blank" :> <<"b", "l", "a", "n", "k">>) @@ ("cd" :> <<"c", "d">>) @@
  ("cd .." :> <<"c", "d", " ", ".", ".">>) @@
  ("cd /a" :> <<"c", "d", " ", "/", "a">>) @@
  ("copy" :> <<"c", "o", "p", "y">>) @@
  ("copy-file" :> <<"c", "o", "p", "y", "-", "f", "i", "l", "e">>) @@
  ("cp" :> <<"c", "p">>) @@ ("cp -r" :> <<"c", "p", " ", "-", "r">>) @@
  ("delete" :> <<"d", "e", "l", "e", "t", "e">>) @@
  ("delete-file" :> <<"d", "e", "l", "e", "t", "e", "-", "f", "i", "l", "e">>) @@
  ("empty" :> <<"e", "m", "p", "t", "y">>) @@
  ("frobnicate" :> <<"f", "r", "o", "b", "n", "i", "c", "a", "t", "e">>) @@
  ("go" :> <<"g", "o">>) @@
  ("go-back" :> <<"g", "o", "-", "b", "a", "c", "k">>) @@
  ("go-to" :> <<"g", "o", "-", "t", "o">>) @@
  ("goto" :> <<"g", "o", "t", "o">>) @@ ("help" :> <<"h", "e", "l", "p">>) @@
  ("init" :> <<"i", "n", "i", "t">>) @@
  ("install" :> <<"i", "n", "s", "t", "a", "l", "l">>) @@
  ("install-package" :> <<"i", "n", "s", "t", "a", "l", "l", "-", "p", "a", "c", "k", "a", "g", "e">>) @@
  ("list" :> <<"l", "i", "s", "t">>) @@
  ("list-files" :> <<"l", "i", "s", "t", "-", "f", "i", "l", "e", "s">>) @@
  ("ll" :> <<"l", "l">>) @@ ("ls" :> <<"l", "s">>) @@
  ("ls -la" :> <<"l", "s", " ", "-", "l", "a">>) @@
  ("move" :> <<"m", "o", "v", "e">>) @@
  ("move-file" :> <<"m", "o", "v", "e", "-", "f", "i", "l", "e">>) @@
  ("mv" :> <<"m", "v">>) @@ ("pacman" :> <<"p", "a", "c", "m", "a", "n">>) @@
  ("remove" :> <<"r", "e", "m", "o", "v", "e">>) @@
  ("remove-package" :> <<"r", "e", "m", "o", "v", "e", "-", "p", "a", "c", "k", "a", "g", "e">>) @@
  ("rm" :> <<"r", "m">>) @@ ("rm -rf" :> <<"r", "m", " ", "-", "r", "f">>) @@
  ("sp" :> <<"s", "p">>) @@ ("sudo" :> <<"s", "u", "d", "o">>) @@
  ("sudo pacman -R" :> <<"s", "u", "d", "o", " ", "p", "a", "c", "m", "a", "n", " ", "-", "R">>) @@
  ("sudo pacman -S" :> <<"s", "u", "d", "o", " ", "p", "a", "c", "m", "a", "n", " ", "-", "S">>) @@
  ("sudo pacman -Syu" :> <<"s", "u", "d", "o", " ", "p", "a", "c", "m", "a", "n", " ", "-", "S", "y", "u">>) @@
  ("translate" :> <<"t", "r", "a", "n", "s", "l", "a", "t", "e">>) @@
  ("update" :> <<"u", "p", "d", "a", "t", "e">>) @@
  ("update-system" :> <<"u", "p", "d", "a", "t", "e", "-", "s", "y", "s", "t", "e", "m">>)

(* a HashMap<String, String> with keys and values spelled out *)
encode(map) ==
  [ck \in {chars[k] : k \in DOMAIN map} |->
     chars[map[CHOOSE k \in DOMAIN map : chars[k] = ck]]]

(* what SemanticConfig::load returns for the file save wrote for c *)
saved(c) ==
  [general |-> c.general,
   shells |-> c.shells,
   commands |-> encode(c.commands),
   paths |-> encode(c.paths)]

(* a config.toml edited by hand: an alias of an alias, values with extra  *)
(* whitespace, without a program, with a fixed argument that is a path    *)
(* key; a path mapped to another path key; no default shell               *)
edited_commands ==
  ("ll" :> "list") @@ ("list" :> "ls -la") @@ ("sp" :> "  ls \t -la  ") @@
  ("empty" :> "") @@ ("blank" :> " \t") @@ ("go" :> "cd /a")

edited_paths == ("/a" :> "/b") @@ ("/b" :> "/c")

edited_config ==
  [general |-> [command_style |-> "natural", folder_style |-> "natural"],
   shells |-> [default |-> "", enabled |-> <<>>, on_new_shell |-> "ignore"],
   commands |-> encode(edited_commands),
   paths |-> encode(edited_paths)]

(* the configs load is followed for *)
Configs ==
  {saved(from_selections("fish", "natural", "natural", "auto-setup")),
   saved(from_selections("bash", "traditional", "traditional", "ignore")),
   edited_config}

(* SemanticConfig::load: the file is missing or unreadable, is not a     *)
(* config, or is one                                                     *)
LoadErrors == {"unreadable", "malformed"}
LoadResults == {[ok |-> FALSE, err |-> e, config |-> None] : e \in LoadErrors}
               \cup {[ok |-> TRUE, err |-> "", config |-> Some(c)] :
                       c \in Configs}

(* most trailing arguments of translate followed *)
MaxArgs == 2

(* the command lines followed *)
Subcommands == {"init", "translate", "help"}
Tokens == {"goto", "list", "install", "cd", "ll", "sp", "empty", "blank",
           "go", "frobnicate"}
TrailingArgs == {"/apps", "/not/mapped", "/apps/x", "/a", "/b", "ll"}
ArgSeqs ==
  UNION {[1..n -> {chars[a] : a \in TrailingArgs}] : n \in 0..MaxArgs}
Argvs ==
  {<<>>} \cup {<<chars[c]>> : c \in Subcommands}
  \cup {<<chars["translate"], chars[t]>> \o xs : t \in Tokens, xs \in ArgSeqs}

(* ExitStatus of the child: an exit code, or none when a signal ended it *)
ChildCodes == {0, 1, 2}
ChildStatuses == {Some(n) : n \in ChildCodes} \cup {None}

(* shell::detect_shell and shell::generate_init *)
DetectedShells == {"bash", "zsh"}
generate_init(commands, paths, shell) ==
  [commands |-> commands, paths |-> paths, shell |-> shell]

---------------------------------------------------------------------------
(* a lookup that falls back to the key itself *)
get_OrKey(map, key) == IF key \in DOMAIN map THEN Some(map[key]) ELSE Some(key)

(* HashMap::get *)
get(map, key) == IF key \in DOMAIN map THEN Some(map[key]) ELSE None

(* Option::unwrap_or *)
unwrap_or(opt, default) == IF opt.some THEN opt.val ELSE default

(* char::is_whitespace, for the characters used *)
Whitespace == {" ", "\t", "\n"}

RECURSIVE split_from(_, _, _)
(* the scan of str::split_whitespace: cur is the token being read, acc *)
(* the tokens read                                                     *)
split_from(str, cur, acc) ==
  IF str = <<>>
    THEN IF cur = <<>> THEN acc ELSE Append(acc, cur)
    ELSE IF Head(str) \in Whitespace
           THEN split_from(Tail(str), <<>>,
                           IF cur = <<>> THEN acc ELSE Append(acc, cur))
           ELSE split_from(Tail(str), Append(cur, Head(str)), acc)

(* str::split_whitespace().collect() *)
split_whitespace(str) == split_from(str, <<>>, <<>>)

(* path translation that rewrites the longest path key an argument *)
(* starts with                                                    *)
translated_args_Prefix(paths, extra_args) ==
  [i \in 1..Len(extra_args) |->
     LET a == extra_args[i]
         ks == {k \in DOMAIN paths :
                  Len(k) <= Len(a) /\ SubSeq(a, 1, Len(k)) = k}
     IN IF ks = {}
          THEN a
          ELSE LET k == CHOOSE k \in ks : \A k2 \in ks : Len(k2) <= Len(k)
               IN paths[k] \o SubSeq(a, Len(k) + 1, Len(a))]

(* path translation that looks the mapped path up again *)
translated_args_Twice(paths, extra_args) ==
  [i \in 1..Len(extra_args) |->
     LET once == unwrap_or(get(paths, extra_args[i]), extra_args[i])
     IN unwrap_or(get(paths, once), once)]

(* the path translation of the extra arguments in cmd_translate *)
translated_args(paths, extra_args) ==
  [i \in 1..Len(extra_args) |->
     unwrap_or(get(paths, extra_args[i]), extra_args[i])]

(* the exit code taken from ExitStatus::success *)
code_of_SuccessOnly(s) == IF s.some /\ s.val = 0 THEN 0 ELSE 1

(* a child without an exit code counted as a success *)
code_of_SignalZero(s) == unwrap_or(s, 0)

(* the exit code cmd_translate passes to exit for the status of the child *)
code_of(s) == unwrap_or(s, 1)

---------------------------------------------------------------------------
(* the wizard's variables *)
wizard == <<app, pc, printed, lastOp, lastEvent, saveAttempts, saveSuccesses,
            visited>>

(* eprintln!, then exit(0) *)
fail_ExitsZero(lines) ==
  /\ stderr' = stderr \o lines
  /\ exit_code' = Some(0)
  /\ mpc' = "exited"

(* eprintln!, then exit(1) *)
fail(lines) ==
  /\ stderr' = stderr \o lines
  /\ exit_code' = Some(1)
  /\ mpc' = "exited"

(* the first match of cmd_init and cmd_translate: load failed *)
load_failed(l, lines) ==
  /\ fail(<<[msg |-> "Failed to load config", arg |-> <<l.err>>]>> \o lines)
  /\ UNCHANGED <<command, status, stdout>>

(* cmd_init; l is what SemanticConfig::load returns, d what *)
(* shell::detect_shell returns                             *)
cmd_init(l, d) ==
  /\ loaded' = Some(l)
  /\ IF ~l.ok
       THEN load_failed(l,
              <<[msg |-> "Run semantic (no args) to set up your config first.",
                 arg |-> <<>>]>>)
       ELSE LET config == l.config.val
                shell == IF config.shells.default = ""
                           THEN d ELSE config.shells.default
            IN /\ stdout' = Some(generate_init(config.commands, config.paths,
                                               shell))
               /\ exit_code' = Some(0)
               /\ mpc' = "exited"
               /\ UNCHANGED <<command, status, stderr>>

(* cmd_translate up to the return of the spawn in Command::status; l is *)
(* what SemanticConfig::load returns, spawn_ok whether the program      *)
(* could be started                                                     *)
cmd_translate(a, l, spawn_ok) ==
  IF a = <<>>
    THEN /\ fail(<<[msg |-> "Usage: semantic translate <command> [args...]",
                    arg |-> <<>>]>>)
         /\ UNCHANGED <<loaded, command, status, stdout>>
    ELSE
      /\ loaded' = Some(l)
      /\ IF ~l.ok
           THEN load_failed(l, <<>>)
           ELSE
             LET config == l.config.val
                 semantic_cmd == a[1]
                 extra_args == Tail(a)
                 real_cmd == get(config.commands, semantic_cmd)
             IN IF ~real_cmd.some
                  THEN /\ fail(<<[msg |-> "Unknown semantic command",
                                  arg |-> semantic_cmd]>>)
                       /\ UNCHANGED <<command, status, stdout>>
                  ELSE
                    LET parts == split_whitespace(real_cmd.val)
                    IN IF parts = <<>>
                         THEN (* expect("empty command mapping") panics *)
                              /\ stderr' = Append(stderr,
                                   [msg |-> "thread 'main' panicked",
                                    arg |-> <<"empty command mapping">>])
                              /\ exit_code' = Some(101)
                              /\ mpc' = "exited"
                              /\ UNCHANGED <<command, status, stdout>>
                         ELSE
                           LET program == Head(parts)
                               builtin_args == Tail(parts)
                               targs == translated_args(config.paths,
                                                        extra_args)
                           IN /\ command' = Some([program |-> program,
                                                  args |-> builtin_args \o targs])
                              /\ stdout' = stdout
                              /\ IF spawn_ok
                                   THEN /\ mpc' = "waiting"
                                        /\ UNCHANGED <<status, exit_code,
                                                       stderr>>
                                   ELSE /\ status' = Some([ok |-> FALSE,
                                                           code |-> None])
                                        /\ fail(<<[msg |-> "Failed to run",
                                                   arg |-> real_cmd.val]>>)

(* main up to the launch of the wizard, the exit, or the start of the *)
(* child of translate                                                 *)
main ==
  /\ mpc = "start"
  /\ UNCHANGED <<wizard, args, build>>
  /\ IF args = <<>>
       THEN /\ mpc' = "tui"
            /\ UNCHANGED <<loaded, command, status, exit_code, stderr, stdout>>
       ELSE IF Head(args) = chars["init"]
         THEN \E l \in LoadResults, d \in DetectedShells : cmd_init(l, d)
       ELSE IF Head(args) = chars["translate"]
         THEN \E l \in LoadResults, spawn_ok \in BOOLEAN :
                cmd_translate(Tail(args), l, spawn_ok)
       ELSE /\ fail(<<[msg |-> "Unknown command", arg |-> Head(args)],
                      [msg |-> "Usage: semantic [init | translate <command> ...]",
                       arg |-> <<>>]>>)
            /\ UNCHANGED <<loaded, command, status, stdout>>

(* the child of translate ends with s: the Ok arm of the match on status *)
child_exit ==
  /\ mpc = "waiting"
  /\ \E s \in ChildStatuses :
       /\ status' = Some([ok |-> TRUE, code |-> s])
       /\ exit_code' = Some(code_of(s))
  /\ mpc' = "exited"
  /\ UNCHANGED <<wizard, args, loaded, command, stderr, stdout, build>>

(* the start of the process *)
MainInit ==
  /\ NewApp
  /\ args \in Argvs
  /\ mpc = "start"
  /\ NotRun
  /\ NotBuilt

MainNext == main \/ child_exit \/ Next

Main == MainInit /\ [][MainNext]_vars

---------------------------------------------------------------------------
(* One call of SemanticConfig::from_selections with any strings. *)
ShellNames == {"fish", ""}
StyleNames == {"natural", "traditional", "verbose", "", "Natural", "fancy"}
PolicyNames == {"notify", "never"}

BuildInit ==
  /\ NewApp
  /\ args = <<>>
  /\ mpc = "start"
  /\ NotRun
  /\ sel \in {Some([shell |-> sh, command_style |-> cs, folder_style |-> fs,
                    on_new_shell |-> ns]) :
                sh \in ShellNames, cs \in StyleNames, fs \in StyleNames,
                ns \in PolicyNames}
  /\ built = None

call_from_selections ==
  /\ built = None
  /\ built' = Some(from_selections(sel.val.shell, sel.val.command_style,
                                   sel.val.folder_style, sel.val.on_new_shell))
  /\ UNCHANGED <<wizard, args, mpc, loaded, command, status, exit_code,
                 stderr, stdout, sel>>

Build == BuildInit /\ [][call_from_selections]_vars

---------------------------------------------------------------------------
(* translate run on a config the wizard saved: sel is what the user had    *)
(* selected when advance was called on Summary, built the config advance   *)
(* built from it and saved, args a translate command line whose token is a *)
(* key of one of the preset tables.                                        *)
Selections ==
  {[shell |-> sh, command_style |-> cs, folder_style |-> fs,
    on_new_shell |-> ns] :
     sh \in Range(shells), cs \in Range(command_styles),
     fs \in Range(folder_styles),
     ns \in {o[1] : o \in Range(new_shell_options)}}

PresetKeys ==
  DOMAIN natural_commands \cup DOMAIN verbose_commands
    \cup DOMAIN traditional_commands

CommittedInit ==
  /\ NewApp
  /\ NotRun
  /\ mpc = "start"
  /\ \E s \in Selections :
       /\ sel = Some(s)
       /\ built = Some(from_selections(s.shell, s.command_style,
                                       s.folder_style, s.on_new_shell))
  /\ args \in {<<chars["translate"], chars[k]>> : k \in PresetKeys}

(* main with translate as first argument; SemanticConfig::load returns *)
(* what save wrote                                                     *)
translate_committed ==
  /\ mpc = "start"
  /\ UNCHANGED <<wizard, args, build>>
  /\ \E spawn_ok \in BOOLEAN :
       cmd_translate(Tail(args),
                     [ok |-> TRUE, err |-> "",
                      config |-> Some(saved(built.val))],
                     spawn_ok)

CommittedNext == translate_committed \/ child_exit

Committed == CommittedInit /\ [][CommittedNext]_vars

---------------------------------------------------------------------------
(* Helpers of the properties.                                              *)

(* The step is one handled event whose operation is o: LoopIter is the    *)
(* only action that leaves pc alone.                                      *)
IsOp(o) == pc' = pc /\ lastOp'.op = o

SavesNothing == saveAttempts' = saveAttempts /\ saveSuccesses' = saveSuccesses

SelectionSteps == {"Shell", "CommandStyle", "FolderStyle", "NewShellBehavior"}

(* position of a list's cursor in the tuple cursors *)
ListPos(list) ==
  CASE list = "shell_state" -> 1
    [] list = "command_style_state" -> 2
    [] list = "folder_style_state" -> 3
    [] list = "new_shell_state" -> 4

Abs(x) == IF x < 0 THEN -x ELSE x

---------------------------------------------------------------------------
(* C1: the step is Done only when the last operation was an advance()      *)
(* issued on Summary whose save succeeded, and once the step is Done no    *)
(* step of the session changes it.                                         *)
C1_DoneOnlyAfterCommit ==
  /\ [](step = "Done" =>
          /\ lastOp.op = "advance"
          /\ lastOp.from = "Summary"
          /\ lastOp.save = "ok")
  /\ [][step = "Done" => step' = "Done"]_vars

(* the session has ended on Done, the step still being Done *)
C1_Witness == pc = "exited" /\ step = "Done" /\ printed

(* C2: advance() on Summary with a failing save stays on Summary, sets the *)
(* error and keeps the four cursors; with a succeeding save (also after an *)
(* earlier failure) it clears the error and moves to Done.                 *)
C2_CommitFailureRetryable ==
  [][(IsOp("advance") /\ step = "Summary") =>
       IF lastOp'.save = "err"
         THEN /\ step' = "Summary"
              /\ write_error'.some
              /\ cursors' = cursors
         ELSE /\ lastOp'.save = "ok"
              /\ write_error' = None
              /\ step' = "Done"]_vars

(* a successful commit after a failed one *)
C2_Witness ==
  /\ step = "Done"
  /\ saveAttempts >= 2
  /\ saveSuccesses = 1
  /\ write_error = None

(* C3: save is attempted only by advance() on Summary, every advance() on  *)
(* Summary makes exactly one attempt, and at most one attempt of a session *)
(* succeeds.                                                               *)
C3_SingleCommit ==
  /\ [][/\ (saveAttempts' # saveAttempts \/ saveSuccesses' # saveSuccesses)
             => (IsOp("advance") /\ step = "Summary")
        /\ (IsOp("advance") /\ step = "Summary")
             => saveAttempts' = saveAttempts + 1
        /\ saveSuccesses' \in {saveSuccesses, saveSuccesses + 1}
        /\ saveSuccesses' # saveSuccesses => lastOp'.save = "ok"]_vars
  /\ [](saveSuccesses <= 1 /\ saveSuccesses <= saveAttempts)

(* a failed attempt, then an explicit retry that succeeded *)
C3_Witness == saveAttempts = 2 /\ saveSuccesses = 1 /\ pc = "exited"

(* C4: the steps are first visited in the order of the enumeration, no     *)
(* save is attempted before Welcome .. Summary have all been visited, and  *)
(* one step of the session moves the position of the step by at most one.  *)
C4_NoSkipping ==
  /\ [](/\ Len(visited) <= Len(Steps)
        /\ visited = SubSeq(Steps, 1, Len(visited))
        /\ step \in Range(visited)
        /\ (saveAttempts > 0 => Len(visited) >= 6))
  /\ [][Abs(index(step') - index(step)) <= 1]_vars

(* a save was attempted after the six steps were visited in order *)
C4_Witness ==
  /\ saveAttempts > 0
  /\ SubSeq(visited, 1, 6) = <<"Welcome", "Shell", "CommandStyle",
                               "FolderStyle", "NewShellBehavior", "Summary">>

(* C5: quit makes no save attempt; once should_quit is set no further      *)
(* event is handled and no save is attempted; a session that was quit has  *)
(* no successful save.                                                     *)
C5_QuitWithoutPersisting ==
  /\ [][IsOp("quit") =>
          /\ should_quit'
          /\ SavesNothing
          /\ step' = step
          /\ cursors' = cursors]_vars
  /\ [][should_quit =>
          /\ pc' # "loop"
          /\ UNCHANGED <<app, lastOp, saveAttempts, saveSuccesses>>]_vars
  /\ [](should_quit => saveSuccesses = 0)

(* quit on Summary after a failed save; the session has ended *)
C5_Witness ==
  /\ should_quit
  /\ pc = "exited"
  /\ step = "Summary"
  /\ saveAttempts > 0
  /\ ~printed

(* C6: the config handed to save is built from the options under the four  *)
(* cursors at the time of that advance(): commands is the preset of the    *)
(* selected command style, paths the preset of the selected folder style;  *)
(* fish / traditional / traditional / ignore gives the traditional         *)
(* commands and no paths.                                                  *)
C6_StoreFromCurrentSelections ==
  lastOp.handed.some =>
    LET c == lastOp.handed.val
    IN /\ lastOp.op = "advance" /\ lastOp.from = "Summary"
       /\ c.commands = CASE command_style_state = 0 -> natural_commands
                         [] command_style_state = 1 -> traditional_commands
                         [] command_style_state = 2 -> verbose_commands
       /\ c.paths = CASE folder_style_state = 0 -> natural_paths
                      [] folder_style_state = 1 -> traditional_paths
                      [] folder_style_state = 2 -> verbose_paths
       /\ c.shells.default = shells[shell_state + 1]
       /\ c.shells.on_new_shell = new_shell_options[new_shell_state + 1][1]
       /\ (cursors = <<0, 1, 1, 2>> =>
             /\ c.shells.default = "fish"
             /\ c.shells.on_new_shell = "ignore"
             /\ DOMAIN c.commands = {"cd", "ls", "rm", "cp", "mv", "pacman"}
             /\ \A k \in DOMAIN c.commands : c.commands[k] = k
             /\ DOMAIN c.paths = {})

(* fish / traditional / traditional / ignore committed at the second try *)
C6_Witness ==
  /\ lastOp.handed.some
  /\ lastOp.save = "ok"
  /\ saveAttempts = 2
  /\ cursors = <<0, 1, 1, 2>>

(* C7: go_back makes no save attempt, keeps the four cursors and leaves    *)
(* the error cleared; advance() off Summary keeps the cursors; go_back     *)
(* right after an advance() from Welcome .. NewShellBehavior returns to    *)
(* the step the advance() was issued on.                                   *)
C7_NavigationKeepsSelections ==
  /\ [][IsOp("go_back") =>
          /\ SavesNothing
          /\ cursors' = cursors
          /\ write_error' = None
          /\ (lastOp.op = "advance" /\ lastOp.from # "Summary"
                => step' = lastOp.from)]_vars
  /\ [][(IsOp("advance") /\ step # "Summary") =>
          /\ cursors' = cursors
          /\ SavesNothing]_vars

(* back on Shell from CommandStyle with both selections kept *)
C7_Witness ==
  /\ lastOp.op = "go_back"
  /\ lastOp.from = "CommandStyle"
  /\ step = "Shell"
  /\ shell_state = 2
  /\ command_style_state = 1

(* C8: each of the four cursors is an index into its own option list.      *)
C8_CursorsInRange ==
  /\ shell_state \in 0..(Len(shells) - 1)
  /\ command_style_state \in 0..(Len(command_styles) - 1)
  /\ folder_style_state \in 0..(Len(folder_styles) - 1)
  /\ new_shell_state \in 0..(Len(new_shell_options) - 1)

(* every cursor has been moved to the last option *)
C8_Witness ==
  /\ cursors = <<2, 2, 2, 2>>
  /\ step = "Summary"

RECURSIVE down_times(_, _, _)
down_times(i, n, k) ==
  IF k = 0 THEN i ELSE down_times(down_index(i, n), n, k - 1)

(* C9: on a step with n options move_up selects (i - 1 + n) mod n and      *)
(* move_down selects (i + 1) mod n; up then down, and n times down,        *)
(* restore the index.                                                      *)
C9_CursorWraparound ==
  /\ [][(current_list_state.some /\ (IsOp("move_up") \/ IsOp("move_down"))) =>
          LET l == current_list_state.val
              i == cursors[ListPos(l.list)]
              j == cursors'[ListPos(l.list)]
          IN IF lastOp'.op = "move_up"
               THEN j = (i - 1 + l.len) % l.len
               ELSE j = (i + 1) % l.len]_vars
  /\ [](current_list_state.some =>
          LET l == current_list_state.val
              i == cursors[ListPos(l.list)]
          IN /\ down_index(up_index(i, l.len), l.len) = i
             /\ down_times(i, l.len, l.len) = i)

(* move_up from the first option has selected the last one *)
C9_Witness ==
  /\ lastOp.op = "move_up"
  /\ lastOp.from = "FolderStyle"
  /\ step = "FolderStyle"
  /\ folder_style_state = 2
  /\ cursors = <<0, 0, 2, 0>>

(* C10: move_up / move_down change nothing on Welcome, Summary and Done;   *)
(* on a selection step they change at most the cursor of that step; they   *)
(* never attempt a save.                                                   *)
C10_MoveFrame ==
  [][(IsOp("move_up") \/ IsOp("move_down")) =>
       /\ step' = step
       /\ write_error' = write_error
       /\ should_quit' = should_quit
       /\ SavesNothing
       /\ IF step \in SelectionSteps
            THEN \A p \in 1..4 :
                   p # ListPos(current_list_state.val.list)
                     => cursors'[p] = cursors[p]
            ELSE cursors' = cursors]_vars

(* move_down on Summary with an error shown and selections made *)
C10_Witness ==
  /\ lastOp.op = "move_down"
  /\ lastOp.from = "Summary"
  /\ write_error.some
  /\ cursors = <<1, 2, 0, 1>>

(* C11: write_error goes from unset to set only in an advance() on         *)
(* Summary whose save failed, and it is unset after every go_back, on      *)
(* whichever step go_back is issued.                                       *)
C11_ErrorSetOnlyByFailedCommit ==
  /\ [][(~write_error.some /\ write_error'.some) =>
          /\ IsOp("advance")
          /\ step = "Summary"
          /\ lastOp'.save = "err"
          /\ lastOp'.handed.some]_vars
  /\ [][IsOp("go_back") => ~write_error'.some]_vars
  /\ [](lastOp.op = "go_back" => write_error = None)

(* go_back on Summary after a failed save: the error is gone *)
C11_Witness ==
  /\ lastOp.op = "go_back"
  /\ lastOp.from = "Summary"
  /\ step = "NewShellBehavior"
  /\ saveAttempts > 0
  /\ saveSuccesses = 0
  /\ write_error = None

(* the operation handle_event runs for a key code *)
OpOfKey(code) ==
  CASE code \in {"q", "Esc"} -> "quit"
    [] code = "Enter" -> "advance"
    [] code = "Backspace" -> "go_back"
    [] code \in {"Up", "k"} -> "move_up"
    [] code \in {"Down", "j"} -> "move_down"
    [] OTHER -> "none"

(* C12: a handled event runs exactly the one operation of its key (quit,   *)
(* advance, go_back, move_up, move_down, nothing for any other key), and   *)
(* an event that is not a key press leaves the App unchanged and attempts  *)
(* no save.                                                                *)
C12_OneOperationPerIntent ==
  [][pc' = pc =>
       LET ev == lastEvent'
       IN IF ev.type = "Key" /\ ev.kind = "Press"
            THEN /\ lastOp'.op = OpOfKey(ev.code)
                 /\ (should_quit' # should_quit) <=> (lastOp'.op = "quit")
                 /\ (step' # step) => lastOp'.op \in {"advance", "go_back"}
                 /\ (cursors' # cursors) =>
                      lastOp'.op \in {"move_up", "move_down"}
                 /\ (saveAttempts' # saveAttempts) => lastOp'.op = "advance"
            ELSE /\ lastOp'.op = "none"
                 /\ app' = app
                 /\ SavesNothing]_vars

(* the release of Enter arrived on Shell after its press: still on Shell *)
C12_Witness ==
  /\ lastEvent = [type |-> "Key", kind |-> "Release", code |-> "Enter"]
  /\ lastOp.op = "none"
  /\ lastOp.from = "Shell"
  /\ step = "Shell"
  /\ visited = <<"Welcome", "Shell">>

---------------------------------------------------------------------------
(* Helpers of the properties of translate.                                 *)

(* a translate command line with a token *)
IsTranslate == Len(args) >= 2 /\ args[1] = chars["translate"]
AliasToken == args[2]
Trailing == SubSeq(args, 3, Len(args))

(* the config translate loaded *)
LoadedOk == loaded.some /\ loaded.val.ok
Store == loaded.val.config.val

(* the maximal runs of non-whitespace characters of str, left to right *)
RunStarts(str) ==
  {i \in 1..Len(str) :
     str[i] \notin Whitespace /\ (i = 1 \/ str[i - 1] \in Whitespace)}
RunEnd(str, i) ==
  CHOOSE j \in i..Len(str) :
    /\ \A k \in i..j : str[k] \notin Whitespace
    /\ (j = Len(str) \/ str[j + 1] \in Whitespace)
Runs(str) ==
  [n \in 1..Cardinality(RunStarts(str)) |->
     LET i == CHOOSE i \in RunStarts(str) :
                Cardinality({j \in RunStarts(str) : j < i}) = n - 1
     IN SubSeq(str, i, RunEnd(str, i))]

(* C13: for a token of commandMap whose value has a program, the command   *)
(* built has the first whitespace-separated token of the value as program  *)
(* and as arguments the other tokens followed by the trailing arguments in *)
(* their order, each replaced by pathMap[arg] exactly when the whole       *)
(* argument is a key of pathMap; no trailing entry is added or lost.       *)
C13_TranslatePlan ==
  /\ (mpc # "start" /\ IsTranslate /\ LoadedOk) =>
       (command.some <=>
          /\ AliasToken \in DOMAIN Store.commands
          /\ Runs(Store.commands[AliasToken]) # <<>>)
  /\ command.some =>
       LET runs == Runs(Store.commands[AliasToken])
           fixed == Len(runs) - 1
           plan == command.val
       IN /\ plan.program = runs[1]
          /\ Len(plan.args) = fixed + Len(Trailing)
          /\ \A i \in 1..fixed : plan.args[i] = runs[i + 1]
          /\ \A i \in 1..Len(Trailing) :
               plan.args[fixed + i] =
                 IF Trailing[i] \in DOMAIN Store.paths
                   THEN Store.paths[Trailing[i]]
                   ELSE Trailing[i]
  /\ (command.some /\ Store.general.command_style = "natural"
        /\ Store.shells.default = "fish") =>
       /\ args = <<chars["translate"], chars["goto"], chars["/apps"]>> =>
            command.val = [program |-> chars["cd"],
                           args |-> <<chars["/usr/bin"]>>]
       /\ args = <<chars["translate"], chars["list"], chars["/not/mapped"]>> =>
            command.val = [program |-> chars["ls"],
                           args |-> <<chars["-la"], chars["/not/mapped"]>>]

(* list /apps/x /apps under the natural presets: only the whole argument *)
(* /apps is replaced                                                     *)
C13_Witness ==
  /\ args = <<chars["translate"], chars["list"], chars["/apps/x"],
              chars["/apps"]>>
  /\ command = Some([program |-> chars["ls"],
                     args |-> <<chars["-la"], chars["/apps/x"],
                                chars["/usr/bin"]>>])

(* C13 as stated: every non-empty mapped value yields a plan whose program *)
(* is its first token.                                                     *)
C13_AsStated ==
  (mpc # "start" /\ IsTranslate /\ LoadedOk
     /\ AliasToken \in DOMAIN Store.commands
     /\ Store.commands[AliasToken] # <<>>) =>
    /\ command.some
    /\ command.val.program = Runs(Store.commands[AliasToken])[1]
    /\ Len(command.val.args) =
         Len(Runs(Store.commands[AliasToken])) - 1 + Len(Trailing)

(* C14: a token that is not a key of commandMap ends translate with the    *)
(* diagnostic naming the token and exit code 1; no command is built or     *)
(* run.                                                                    *)
C14_UnknownCommand ==
  (mpc # "start" /\ IsTranslate /\ LoadedOk
     /\ AliasToken \notin DOMAIN Store.commands) =>
    /\ mpc = "exited"
    /\ exit_code = Some(1)
    /\ stderr = <<[msg |-> "Unknown semantic command", arg |-> AliasToken]>>
    /\ command = None
    /\ status = None
    /\ stdout = None

(* frobnicate, and an alias of another style, are unknown *)
C14_Witness ==
  /\ IsTranslate
  /\ LoadedOk
  /\ AliasToken = chars["frobnicate"]
  /\ Trailing = <<chars["/apps"]>>
  /\ Store.general.command_style = "natural"
  /\ exit_code = Some(1)

(* the mapped value of the token has no program: it is empty or blank *)
Malformed ==
  /\ mpc # "start"
  /\ IsTranslate
  /\ LoadedOk
  /\ AliasToken \in DOMAIN Store.commands
  /\ \A i \in 1..Len(Store.commands[AliasToken]) :
       Store.commands[AliasToken][i] \in Whitespace

(* C15: a token whose mapped value is empty or blank ends translate like   *)
(* the other fatal translation errors, by a diagnostic and exit code 1,    *)
(* and no command is built or run.                                         *)
C15_MalformedMapping ==
  Malformed =>
    /\ mpc = "exited"
    /\ exit_code = Some(1)
    /\ Len(stderr) = 1
    /\ stderr[1].msg # "thread 'main' panicked"
    /\ command = None
    /\ status = None

(* C16 as stated: whenever the program was started, translate ends with    *)
(* the status of the child, however the child ended.                       *)
C16_AsStated ==
  (mpc = "exited" /\ status.some /\ status.val.ok) =>
    exit_code = status.val.code

(* C16: when the program was started and ended with an exit code,          *)
(* translate exits with that code.                                         *)
C16_ExitCodeForwarded ==
  (mpc = "exited" /\ status.some /\ status.val.ok /\ status.val.code.some) =>
    /\ exit_code = Some(status.val.code.val)
    /\ command.some
    /\ stderr = <<>>

(* the child ended with code 2, and so did translate *)
C16_Witness ==
  /\ mpc = "exited"
  /\ command.some
  /\ status = Some([ok |-> TRUE, code |-> Some(2)])
  /\ exit_code = Some(2)

(* C17: from_selections takes any strings: "natural" and "verbose" select  *)
(* their own tables, every other style string the traditional commands and *)
(* the empty traditional paths.                                            *)
C17_PresetsTotal ==
  (built # None) =>
    LET cs == sel.val.command_style
        fs == sel.val.folder_style
        c == built.val
    IN /\ (cs = "natural" => c.commands = natural_commands)
       /\ (cs = "verbose" => c.commands = verbose_commands)
       /\ (cs \notin {"natural", "verbose"} =>
             /\ DOMAIN c.commands = {"cd", "ls", "rm", "cp", "mv", "pacman"}
             /\ \A k \in DOMAIN c.commands : c.commands[k] = k)
       /\ (fs = "natural" => c.paths = natural_paths)
       /\ (fs = "verbose" => c.paths = verbose_paths)
       /\ (fs \notin {"natural", "verbose"} => DOMAIN c.paths = {})
       /\ DOMAIN natural_commands # DOMAIN verbose_commands
       /\ DOMAIN natural_paths # DOMAIN verbose_paths

(* an unknown command style and an empty folder style were built *)
C17_Witness ==
  /\ built # None
  /\ sel.val.command_style = "fancy"
  /\ sel.val.folder_style = ""
  /\ built.val.commands = traditional_commands
  /\ built.val.paths = traditional_paths

(* C18: without arguments main launches the wizard; init and translate     *)
(* with a config that cannot be loaded exit with code 1, print no init     *)
(* text and build no command; translate without a token exits with code 1  *)
(* before the config is loaded; any other first argument exits with        *)
(* code 1.                                                                 *)
C18_Dispatch ==
  /\ [][(mpc = "start" /\ args = <<>>) =>
          /\ mpc' = "tui"
          /\ exit_code' = None
          /\ UNCHANGED <<wizard, loaded, command, stdout, stderr>>]_vars
  /\ [](args = <<>> => loaded = None /\ command = None /\ stdout = None)
  /\ []((loaded.some /\ ~loaded.val.ok) =>
          /\ args # <<>> /\ args[1] \in {chars["init"], chars["translate"]}
          /\ mpc = "exited"
          /\ exit_code = Some(1)
          /\ stderr # <<>>
          /\ stderr[1].msg = "Failed to load config"
          /\ stdout = None
          /\ command = None)
  /\ []((mpc # "start" /\ args = <<chars["translate"]>>) =>
          /\ mpc = "exited"
          /\ exit_code = Some(1)
          /\ loaded = None
          /\ command = None)
  /\ []((mpc # "start" /\ args # <<>>
           /\ args[1] \notin {chars["init"], chars["translate"]}) =>
          /\ mpc = "exited"
          /\ exit_code = Some(1)
          /\ stderr # <<>>
          /\ stderr[1] = [msg |-> "Unknown command", arg |-> args[1]]
          /\ loaded = None
          /\ command = None
          /\ stdout = None)

(* init with an unreadable config has exited with code 1 and no output *)
C18_Witness ==
  /\ args = <<chars["init"]>>
  /\ loaded.some
  /\ ~loaded.val.ok
  /\ loaded.val.err = "unreadable"
  /\ exit_code = Some(1)
  /\ stdout = None

(* C19: translation looks each thing up once: a program that is itself a   *)
(* key of commandMap is run as it is, a mapped path that is itself a key   *)
(* of pathMap is passed as it is, and a trailing argument that is a key of *)
(* commandMap only is passed unchanged.                                    *)
C19_SingleLevelLookup ==
  command.some =>
    LET plan == command.val
        value == Store.commands[AliasToken]
        fixed == Len(plan.args) - Len(Trailing)
    IN /\ plan.program = Runs(value)[1]
       /\ (plan.program \in DOMAIN Store.commands) =>
            (plan.program # Runs(Store.commands[plan.program])[1]
               \/ plan.program = AliasToken
               \/ Runs(Store.commands[plan.program])[1] = Runs(value)[1])
       /\ \A i \in 1..Len(Trailing) :
            LET a == Trailing[i]
                out == plan.args[fixed + i]
            IN /\ (a \in DOMAIN Store.paths) => (out = Store.paths[a])
               /\ (a \notin DOMAIN Store.paths) => (out = a)
       /\ (args = <<chars["translate"], chars["ll"], chars["/a"], chars["ll"]>>
             /\ Store = edited_config) =>
            plan = [program |-> chars["list"],
                    args |-> <<chars["/b"], chars["ll"]>>]
       /\ (args = <<chars["translate"], chars["go"], chars["/b"]>>
             /\ Store = edited_config) =>
            plan = [program |-> chars["cd"],
                    args |-> <<chars["/a"], chars["/c"]>>]

(* ll /a ll under the edited config: list is run, /a became /b and not *)
(* /c, the argument ll stayed                                          *)
C19_Witness ==
  /\ args = <<chars["translate"], chars["ll"], chars["/a"], chars["ll"]>>
  /\ command = Some([program |-> chars["list"],
                     args |-> <<chars["/b"], chars["ll"]>>])
  /\ mpc = "exited"

---------------------------------------------------------------------------
(* The wizard with the scheduling of run_inner: once the condition of the  *)
(* while loop is false the loop is left and run returns or exits, with the *)
(* terminal restored or not.  Whether and which events arrive is up to the *)
(* user and the terminal, so the handling of events is given no fairness   *)
(* here.                                                                   *)
Live == Init /\ [][Next]_vars /\ WF_vars(LoopExit \/ RestoreError)

(* the press of Enter *)
EnterPress == [type |-> "Key", kind |-> "Press", code |-> "Enter"]

(* one iteration of the loop that handles a press of Enter *)
Confirm == LoopIter /\ lastEvent' = EnterPress

(* C21: if from some point on every step taken before Done is the handling *)
(* of a press of Enter, Enter keeps being pressed while the wizard reads   *)
(* events, the session is not quit, the terminal does not fail, and one of *)
(* the save attempts followed succeeds, then the step eventually is Done;  *)
(* this includes the states after a failed save.                           *)
C21_ConfirmReachesDone ==
  (/\ <>[][step # "Done" => Confirm]_vars
   /\ WF_vars(Confirm)
   /\ [](~should_quit /\ pc # "error")
   /\ [](saveAttempts = MaxAttempts => saveSuccesses > 0))
  => <>(step = "Done")

(* Done was reached by Enter alone, the first save having failed *)
C21_Witness ==
  /\ step = "Done"
  /\ lastEvent = EnterPress
  /\ saveAttempts = 2
  /\ saveSuccesses = 1
  /\ cursors = <<0, 0, 0, 0>>
  /\ pc = "loop"

(* C22: in every state of the wizard, write_error is set only while the    *)
(* step is Summary: never on an earlier step and never on Done.            *)
C22_ErrorOnlyOnSummary ==
  write_error.some =>
    /\ step = "Summary"
    /\ saveAttempts > saveSuccesses

(* the error of a second failed save, shown on Summary after the user went *)
(* back and changed the shell                                              *)
C22_Witness ==
  /\ write_error.some
  /\ step = "Summary"
  /\ lastOp.op = "advance"
  /\ saveAttempts = 2
  /\ saveSuccesses = 0
  /\ shell_state = 1
  /\ Len(visited) = 6

(* C23: in the config saved for any combination of the offered options,   *)
(* every key of commands is non-empty and its value has at least one       *)
(* token; translate on a key of that config builds a command and does not  *)
(* end in the panic of an empty command mapping.                           *)
C23_CommittedStoreWellFormed ==
  built.some =>
    LET c == saved(built.val)
    IN /\ DOMAIN c.commands # {}
       /\ \A k \in DOMAIN c.commands :
            /\ k # <<>>
            /\ Runs(c.commands[k]) # <<>>
       /\ (mpc # "start" /\ AliasToken \in DOMAIN c.commands) =>
            /\ Store = c
            /\ ~Malformed
            /\ command.some
            /\ command.val.program = Runs(c.commands[AliasToken])[1]
            /\ exit_code # Some(101)
            /\ \A i \in 1..Len(stderr) :
                 stderr[i].msg # "thread 'main' panicked"

(* update-system translated under a saved zsh / verbose / traditional / *)
(* notify config, and run                                              *)
C23_Witness ==
  /\ sel = Some([shell |-> "zsh", command_style |-> "verbose",
                 folder_style |-> "traditional", on_new_shell |-> "notify"])
  /\ args = <<chars["translate"], chars["update-system"]>>
  /\ command = Some([program |-> chars["sudo"],
                     args |-> <<chars["pacman"], chars["-Syu"]>>])
  /\ status = Some([ok |-> TRUE, code |-> Some(0)])
  /\ exit_code = Some(0)

(* C24: the config a successful advance() on Summary saved records the    *)
(* options under the four cursors as they are: shells.default is the       *)
(* selected shell, shells.enabled the sequence of that one shell,          *)
(* shells.on_new_shell the token of the selected behaviour, and            *)
(* general.command_style / general.folder_style the selected style names.  *)
C24_SelectionsVerbatim ==
  (lastOp.handed.some /\ lastOp.save = "ok") =>
    LET c == lastOp.handed.val
        sh == <<"fish", "bash", "zsh">>[shell_state + 1]
        cs == <<"natural", "traditional", "verbose">>[command_style_state + 1]
        fs == <<"natural", "traditional", "verbose">>[folder_style_state + 1]
        ns == <<"auto-setup", "notify", "ignore">>[new_shell_state + 1]
    IN /\ step = "Done"
       /\ c.shells.default = sh
       /\ c.shells.enabled = <<sh>>
       /\ c.shells.on_new_shell = ns
       /\ c.general.command_style = cs
       /\ c.general.folder_style = fs
       /\ DOMAIN c.general = {"command_style", "folder_style"}
       /\ DOMAIN c.shells = {"default", "enabled", "on_new_shell"}

(* zsh / traditional / verbose / notify was saved *)
C24_Witness ==
  /\ lastOp.handed.some
  /\ lastOp.save = "ok"
  /\ cursors = <<2, 1, 2, 1>>
  /\ lastOp.handed.val.shells =
       [default |-> "zsh", enabled |-> <<"zsh">>, on_new_shell |-> "notify"]
  /\ lastOp.handed.val.general =
       [command_style |-> "traditional", folder_style |-> "verbose"]

(* C25: a translate that built a command ends with the exit code of the   *)
(* child when the child ended with one, and with 1 both when the child     *)
(* ended without an exit code and when the program could not be started;   *)
(* only the last case prints a diagnostic.                                 *)
C25_TranslateExitCode ==
  (mpc = "exited" /\ IsTranslate /\ command.some) =>
    /\ status.some
    /\ exit_code.some
    /\ IF status.val.ok
         THEN /\ stderr = <<>>
              /\ IF status.val.code = None
                   THEN exit_code.val = 1
                   ELSE exit_code.val = status.val.code.val
         ELSE /\ exit_code.val = 1
              /\ status.val.code = None
              /\ Len(stderr) = 1
              /\ stderr[1].msg = "Failed to run"

(* the child of list was ended by a signal: translate exited with 1 *)
C25_Witness ==
  /\ mpc = "exited"
  /\ args = <<chars["translate"], chars["list"]>>
  /\ command.some
  /\ status = Some([ok |-> TRUE, code |-> None])
  /\ exit_code = Some(1)
  /\ stderr = <<>>

====
